---- MODULE Spec2Model ----
(***************************************************************************)
(* Model of NewWordleSolver/wordle_solver.cpp: the feedback evaluator, the *)
(* constraint updater, the candidate filter, the recommendation (entropy,  *)
(* sorted views, picks) and the turn loop of main.                         *)
(*                                                                         *)
(* A C string is a sequence of one-character strings (its bytes before the *)
(* terminating NUL); a 5-letter word is a sequence of length WORD_SIZE.    *)
(* Array indices are 1-based here and 0-based in the source.               *)
(***************************************************************************)
EXTENDS Integers, Sequences, FiniteSets, TLC

VARIABLES
    pc,                    \* where main is: "prompt" (guess prompt), "feedback" (feedback prompt) or how it ended
    g_tryIdx,              \* the turn counter of the for loop in main
    mask,                  \* main's mask[WORD_SIZE + 1]: the green mask
    notMask,               \* main's notMask[6][WORD_SIZE]: positional exclusions
    goodButDontKnowWhere,  \* main's required-letters string (pGood)
    cannotHave,            \* main's excluded-letters string (pBad)
    pPossibleAnswers,      \* the array of candidate words
    numPossibleAnswers,    \* how many leading entries of pPossibleAnswers are live
    buffer,                \* the guess read last
    result_input,          \* the feedback read last
    answer,                \* the hidden answer of a simulated comparison (<<>> when there is none)
    pMetricsTable,         \* main's metric work buffer, as calculate_all_metrics left it
    pRankSorted,           \* the rank-sorted copy made by the last recommendation
    pEntropySorted,        \* the entropy-sorted copy made by the last recommendation
    rankPicks,             \* PICK_DATA of the rank axis
    entropyPicks,          \* PICK_DATA of the entropy axis
    final_word,            \* the word of the last "Final Top Pick" banner
    twin                   \* a second run on the same input with another dictionary (<<>> when there is none)

analysisVars == <<pMetricsTable, pRankSorted, pEntropySorted, rankPicks,
                  entropyPicks, final_word>>

vars == <<pc, g_tryIdx, mask, notMask, goodButDontKnowWhere, cannotHave,
          pPossibleAnswers, numPossibleAnswers, buffer, result_input, answer,
          pMetricsTable, pRankSorted, pEntropySorted, rankPicks, entropyPicks,
          final_word, twin>>

(***************************************************************************)
(* Program constants.                                                      *)
(***************************************************************************)
WORD_SIZE == 5
MAX_TRIES == 6
ALPHABET_SIZE == 26
BAD_CAPACITY == 26
LOW_POSSIBLE_ANSWER_COUNT == 25

\* Entropies are counted in micro-bits (1e-6 bit).
\* ENTROPY_RANK_THRESHOLD is 0.50 bit.
ENTROPY_RANK_THRESHOLD == 500000

(***************************************************************************)
(* Bounds of the model.                                                    *)
(***************************************************************************)
NumLetters == 3      \* letters of the words the feedback evaluator is run on
NumDictWords == 12   \* words in the dictionary
NumGuessWords == 2   \* words the player may type as a guess
NumHeads == 2        \* entries of a metric table that vary freely

Alphabet ==
    <<"A", "B", "C", "D", "E", "F", "G", "H", "I", "J", "K", "L", "M",
      "N", "O", "P", "Q", "R", "S", "T", "U", "V", "W", "X", "Y", "Z">>

LowerCase ==
    <<"a", "b", "c", "d", "e", "f", "g", "h", "i", "j", "k", "l", "m",
      "n", "o", "p", "q", "r", "s", "t", "u", "v", "w", "x", "y", "z">>

AlphabetSet == {Alphabet[i] : i \in 1..ALPHABET_SIZE}

Positions == 1..WORD_SIZE

Star == "*"

NoWord == <<>>

LowerCaseSet == {LowerCase[i] : i \in 1..ALPHABET_SIZE}

UpperOf ==
    [c \in LowerCaseSet |->
        Alphabet[CHOOSE i \in 1..ALPHABET_SIZE : LowerCase[i] = c]]

\* toupper of <ctype.h>: a lower-case letter becomes its upper-case letter,
\* every other character is returned as it is
toupper(c) == IF c \in LowerCaseSet THEN UpperOf[c] ELSE c

\* number of occurrences of character c in string s
CountIn(s, c) == Cardinality({k \in 1..Len(s) : s[k] = c})

\* strchr(s, c) != NULL for a character c other than NUL
strchr(s, c) == \E k \in 1..Len(s) : s[k] = c

(***************************************************************************)
(* get_feedback_pattern                                                    *)
(***************************************************************************)
\* GreenPass with the loop stopping one position early
GreenPass_ShortLoop(guess, ans) ==
    [i \in Positions |->
        IF i < WORD_SIZE /\ guess[i] = ans[i] THEN "G" ELSE "B"]

\* pass 1: the pattern with the Green positions marked
GreenPass(guess, ans) ==
    [i \in Positions |-> IF guess[i] = ans[i] THEN "G" ELSE "B"]

\* pass 1: the tally of the answer's letters that are not matched Green
answer_char_counts(guess, ans) ==
    [l \in AlphabetSet |->
        Cardinality({i \in Positions : guess[i] # ans[i] /\ ans[i] = l})]

\* YellowPass without the decrement of the remaining count
RECURSIVE YellowPass_NoDecrement(_, _, _, _)
YellowPass_NoDecrement(guess, pattern, counts, i) ==
    IF i > WORD_SIZE THEN pattern
    ELSE IF pattern[i] # "G" /\ counts[guess[i]] > 0
         THEN YellowPass_NoDecrement(guess, [pattern EXCEPT ![i] = "Y"],
                                     counts, i + 1)
         ELSE YellowPass_NoDecrement(guess, pattern, counts, i + 1)

\* YellowPass that never marks the first position
RECURSIVE YellowPass_SkipFirst(_, _, _, _)
YellowPass_SkipFirst(guess, pattern, counts, i) ==
    IF i > WORD_SIZE THEN pattern
    ELSE IF i > 1 /\ pattern[i] # "G" /\ counts[guess[i]] > 0
         THEN YellowPass_SkipFirst(guess, [pattern EXCEPT ![i] = "Y"],
                                   [counts EXCEPT ![guess[i]] = @ - 1], i + 1)
         ELSE YellowPass_SkipFirst(guess, pattern, counts, i + 1)

\* pass 2, from position i on: Yellow while the letter has a remaining count
RECURSIVE YellowPass(_, _, _, _)
YellowPass(guess, pattern, counts, i) ==
    IF i > WORD_SIZE THEN pattern
    ELSE IF pattern[i] # "G" /\ counts[guess[i]] > 0
         THEN YellowPass(guess, [pattern EXCEPT ![i] = "Y"],
                         [counts EXCEPT ![guess[i]] = @ - 1], i + 1)
         ELSE YellowPass(guess, pattern, counts, i + 1)

get_feedback_pattern(guess, ans) ==
    YellowPass(guess, GreenPass(guess, ans), answer_char_counts(guess, ans), 1)

(***************************************************************************)
(* update_game_constraints                                                 *)
(***************************************************************************)
\* step 1: per letter, the number of positions of this guess marked G or Y
confirmed_counts(guess, result_pattern) ==
    [l \in AlphabetSet |->
        Cardinality({idx \in Positions :
            /\ toupper(guess[idx]) = l
            /\ result_pattern[idx] \in {"G", "Y"}})]

\* UpdatePosition writing the required letter at the start of pGood instead of its end
UpdatePosition_Overwrite(guess, result_pattern, s, tryIdx, idx) ==
    LET current_char == toupper(guess[idx])
        current_required_count == CountIn(s.pGood, current_char)
        confirmed == confirmed_counts(guess, result_pattern)[current_char]
        raised == IF current_required_count < confirmed
                  THEN <<current_char>>
                  ELSE s.pGood
    IN  IF result_pattern[idx] = "G"
        THEN [s EXCEPT !.pMask[idx] = current_char, !.pGood = raised]
        ELSE IF result_pattern[idx] = "Y"
        THEN [s EXCEPT !.notMask[tryIdx][idx] = current_char, !.pGood = raised]
        ELSE IF result_pattern[idx] = "B"
        THEN [s EXCEPT !.notMask[tryIdx][idx] = current_char,
                       !.pBad = IF current_required_count = 0
                                   /\ ~strchr(s.pBad, current_char)
                                THEN Append(s.pBad, current_char)
                                ELSE s.pBad]
        ELSE s

\* UpdatePosition without the positional exclusion of a Yellow letter
UpdatePosition_YellowNoMask(guess, result_pattern, s, tryIdx, idx) ==
    LET current_char == toupper(guess[idx])
        current_required_count == CountIn(s.pGood, current_char)
        confirmed == confirmed_counts(guess, result_pattern)[current_char]
        raised == IF current_required_count < confirmed
                  THEN Append(s.pGood, current_char)
                  ELSE s.pGood
    IN  IF result_pattern[idx] = "G"
        THEN [s EXCEPT !.pMask[idx] = current_char, !.pGood = raised]
        ELSE IF result_pattern[idx] = "Y"
        THEN [s EXCEPT !.pGood = raised]
        ELSE IF result_pattern[idx] = "B"
        THEN [s EXCEPT !.notMask[tryIdx][idx] = current_char,
                       !.pBad = IF current_required_count = 0
                                   /\ ~strchr(s.pBad, current_char)
                                THEN Append(s.pBad, current_char)
                                ELSE s.pBad]
        ELSE s

\* UpdatePosition raising the required count at every Green or Yellow position
UpdatePosition_AlwaysRaise(guess, result_pattern, s, tryIdx, idx) ==
    LET current_char == toupper(guess[idx])
        current_required_count == CountIn(s.pGood, current_char)
        confirmed == confirmed_counts(guess, result_pattern)[current_char]
        raised == IF confirmed > 0
                  THEN Append(s.pGood, current_char)
                  ELSE s.pGood
    IN  IF result_pattern[idx] = "G"
        THEN [s EXCEPT !.pMask[idx] = current_char, !.pGood = raised]
        ELSE IF result_pattern[idx] = "Y"
        THEN [s EXCEPT !.notMask[tryIdx][idx] = current_char, !.pGood = raised]
        ELSE IF result_pattern[idx] = "B"
        THEN [s EXCEPT !.notMask[tryIdx][idx] = current_char,
                       !.pBad = IF current_required_count = 0
                                   /\ ~strchr(s.pBad, current_char)
                                THEN Append(s.pBad, current_char)
                                ELSE s.pBad]
        ELSE s

\* step 2, one position: s is the record of the four constraint buffers
UpdatePosition(guess, result_pattern, s, tryIdx, idx) ==
    LET current_char == toupper(guess[idx])
        current_required_count == CountIn(s.pGood, current_char)
        confirmed == confirmed_counts(guess, result_pattern)[current_char]
        raised == IF current_required_count < confirmed
                  THEN Append(s.pGood, current_char)
                  ELSE s.pGood
    IN  IF result_pattern[idx] = "G"
        THEN [s EXCEPT !.pMask[idx] = current_char, !.pGood = raised]
        ELSE IF result_pattern[idx] = "Y"
        THEN [s EXCEPT !.notMask[tryIdx][idx] = current_char, !.pGood = raised]
        ELSE IF result_pattern[idx] = "B"
        THEN [s EXCEPT !.notMask[tryIdx][idx] = current_char,
                       !.pBad = IF current_required_count = 0
                                   /\ ~strchr(s.pBad, current_char)
                                THEN Append(s.pBad, current_char)
                                ELSE s.pBad]
        ELSE s

RECURSIVE UpdateFrom(_, _, _, _, _)
UpdateFrom(guess, result_pattern, s, tryIdx, idx) ==
    IF idx > WORD_SIZE THEN s
    ELSE UpdateFrom(guess, result_pattern,
                    UpdatePosition(guess, result_pattern, s, tryIdx, idx),
                    tryIdx, idx + 1)

update_game_constraints(guess, result_pattern, s, tryIdx) ==
    UpdateFrom(guess, result_pattern, s, tryIdx, 1)

(***************************************************************************)
(* is_good_fit and filter_possible_answers                                 *)
(***************************************************************************)
\* is_good_fit asking for more occurrences than the required count
is_good_fit_Strict(pMask, nMask, pGood, pBad, pWord) ==
    /\ \A k \in 1..Len(pGood) :
          CountIn(pWord, pGood[k]) > CountIn(pGood, pGood[k])
    /\ \A idx \in Positions :
          /\ ~strchr(pBad, pWord[idx])
          /\ (pMask[idx] = Star \/ pMask[idx] = pWord[idx])
          /\ \A notIdx \in 1..MAX_TRIES : nMask[notIdx][idx] # pWord[idx]

\* required_counts[c - 'A'] is the number of occurrences of c in pGood, so the
\* letters with a count above 0 are the letters of pGood
is_good_fit(pMask, nMask, pGood, pBad, pWord) ==
    /\ \A k \in 1..Len(pGood) :
          CountIn(pWord, pGood[k]) >= CountIn(pGood, pGood[k])
    /\ \A idx \in Positions :
          /\ ~strchr(pBad, pWord[idx])
          /\ (pMask[idx] = Star \/ pMask[idx] = pWord[idx])
          /\ \A notIdx \in 1..MAX_TRIES : nMask[notIdx][idx] # pWord[idx]

\* FilterFrom with the loop stopping before the last live entry
RECURSIVE FilterFrom_ShortLoop(_, _, _, _, _)
FilterFrom_ShortLoop(arr, numCurrent, s, i, numNew) ==
    IF i >= numCurrent THEN [arr |-> arr, num |-> numNew]
    ELSE IF is_good_fit(s.pMask, s.notMask, s.pGood, s.pBad, arr[i])
         THEN FilterFrom_ShortLoop([arr EXCEPT ![numNew + 1] = arr[i]],
                                   numCurrent, s, i + 1, numNew + 1)
         ELSE FilterFrom_ShortLoop(arr, numCurrent, s, i + 1, numNew)

\* the loop of filter_possible_answers from index i on; arr is compacted in
\* place and numNew counts the words kept so far
RECURSIVE FilterFrom(_, _, _, _, _)
FilterFrom(arr, numCurrent, s, i, numNew) ==
    IF i > numCurrent THEN [arr |-> arr, num |-> numNew]
    ELSE IF is_good_fit(s.pMask, s.notMask, s.pGood, s.pBad, arr[i])
         THEN FilterFrom([arr EXCEPT ![numNew + 1] = arr[i]], numCurrent, s,
                         i + 1, numNew + 1)
         ELSE FilterFrom(arr, numCurrent, s, i + 1, numNew)

filter_possible_answers(arr, numCurrent, s) ==
    FilterFrom(arr, numCurrent, s, 1, 0)

\* the live candidates: the first num entries of the array
Candidates(arr, num) == {arr[i] : i \in 1..num}

(***************************************************************************)
(* The data main loads: the dictionary (sorted by word, get_dictionary_    *)
(* table) and the table of previously used words (get_used_words_table).   *)
(***************************************************************************)
DictionaryList ==
    << [word |-> <<"C","A","R","E","S">>, rank |-> 58, nounType |-> "P", verbType |-> "S"],
       [word |-> <<"C","A","R","E","T">>, rank |-> 45, nounType |-> "S", verbType |-> "N"],
       [word |-> <<"C","A","T","E","R">>, rank |-> 52, nounType |-> "N", verbType |-> "P"],
       [word |-> <<"C","R","A","N","E">>, rank |-> 50, nounType |-> "S", verbType |-> "P"],
       [word |-> <<"C","R","A","T","E">>, rank |-> 55, nounType |-> "S", verbType |-> "P"],
       [word |-> <<"E","R","A","S","E">>, rank |-> 70, nounType |-> "N", verbType |-> "P"],
       [word |-> <<"R","E","A","C","T">>, rank |-> 78, nounType |-> "N", verbType |-> "P"],
       [word |-> <<"S","C","A","R","E">>, rank |-> 66, nounType |-> "S", verbType |-> "P"],
       [word |-> <<"S","H","A","R","E">>, rank |-> 92, nounType |-> "S", verbType |-> "P"],
       [word |-> <<"S","P","A","R","E">>, rank |-> 74, nounType |-> "N", verbType |-> "P"],
       [word |-> <<"S","T","A","R","E">>, rank |-> 68, nounType |-> "N", verbType |-> "P"],
       [word |-> <<"T","R","A","C","E">>, rank |-> 60, nounType |-> "S", verbType |-> "P"],
       [word |-> <<"W","A","S","T","E">>, rank |-> 83, nounType |-> "S", verbType |-> "P"] >>

\* pDictionaryTable: the first NumDictWords entries (still sorted)
pDictionaryTable == SubSeq(DictionaryList, 1, NumDictWords)

numWordsInDictionary == Len(pDictionaryTable)

\* pUsedWordsTable: past answers, excluded from the initial candidates
pUsedWordsTable == { <<"C","A","T","E","R">> }

\* what the player may type as a guess: dictionary words, a word typed in
\* lower case, words outside the dictionary
GuessList ==
    << <<"S","T","A","R","E">>,
       <<"t","r","e","a","t">>,
       <<"S","H","A","R","P">>,
       <<"E","R","A","S","E">> >>

GuessWords == {GuessList[i] : i \in 1..NumGuessWords}

\* every feedback string the validation loop of main lets through
Patterns == [Positions -> {"B", "G", "Y"}]

\* main, lines 1362-1370: the dictionary words that are not used words, in
\* dictionary order
RECURSIVE InitialAnswersFrom(_)
InitialAnswersFrom(i) ==
    IF i > numWordsInDictionary THEN <<>>
    ELSE IF pDictionaryTable[i].word \in pUsedWordsTable
         THEN InitialAnswersFrom(i + 1)
         ELSE <<pDictionaryTable[i].word>> \o InitialAnswersFrom(i + 1)

InitialAnswers == InitialAnswersFrom(1)

EmptyMask == [i \in Positions |-> Star]

\* the four constraint buffers of main, as update_game_constraints,
\* is_good_fit and filter_possible_answers receive them
Constraints ==
    [pMask |-> mask, notMask |-> notMask,
     pGood |-> goodButDontKnowWhere, pBad |-> cannotHave]

(***************************************************************************)
(* The recommendation: entropy, metrics, the two sorted views, the picks.  *)
(***************************************************************************)
\* log2(c) for c = 1..30, in micro-bits (log(x) / LOG2_E of the source)
Log2Micro ==
    << 0, 1000000, 1584963, 2000000, 2321928, 2584963, 2807355, 3000000,
       3169925, 3321928, 3459432, 3584963, 3700440, 3807355, 3906891, 4000000,
       4087463, 4169925, 4247928, 4321928, 4392317, 4459432, 4523562, 4584963,
       4643856, 4700440, 4754888, 4807355, 4857981, 4906891 >>

\* EPSILON is 1e-9 bit, one nano-bit.  A double that holds an entropy is a
\* pair: its whole micro-bits and the rest in nano-bits (0..999).  Every
\* entropy calculate_entropy_score returns is a whole number of micro-bits.
EPSILON == 1

double_of(pMetric) == <<pMetric.entropy, pMetric.entropy_nano>>

\* a > b on doubles
double_greater(a, b) == a[1] > b[1] \/ (a[1] = b[1] /\ a[2] > b[2])

\* a - b on doubles
double_minus(a, b) ==
    IF a[2] >= b[2] THEN <<a[1] - b[1], a[2] - b[2]>>
    ELSE <<a[1] - b[1] - 1, a[2] - b[2] + 1000>>

\* (a) > (b) + EPSILON
FLOAT_GREATER(a, b) ==
    double_greater(a, <<b[1] + ((b[2] + EPSILON) \div 1000),
                        (b[2] + EPSILON) % 1000>>)

fabs(x) ==
    IF x[1] >= 0 THEN x
    ELSE IF x[2] = 0 THEN <<-x[1], 0>>
    ELSE <<-x[1] - 1, 1000 - x[2]>>

NONE == <<"N", "O", "N", "E">>

DictWords == {DictionaryList[i].word : i \in 1..Len(DictionaryList)}

\* get_feedback_pattern on the dictionary words, tabulated
feedback_table ==
    [g \in DictWords |-> [a \in DictWords |-> get_feedback_pattern(g, a)]]

feedback_of(guess, ans) ==
    IF guess \in DictWords /\ ans \in DictWords
    THEN feedback_table[guess][ans]
    ELSE get_feedback_pattern(guess, ans)

\* calculate_entropy_score, step 1: the list of pattern nodes (word = the
\* pattern, rank = its count), in order of first occurrence
RECURSIVE pattern_counts(_, _, _)
pattern_counts(guess, possibleAnswers, n) ==
    IF n = 0 THEN <<>>
    ELSE LET list == pattern_counts(guess, possibleAnswers, n - 1)
             pattern == feedback_of(guess, possibleAnswers[n])
             found == {k \in 1..Len(list) : list[k].word = pattern}
         IN  IF found = {}
             THEN Append(list, [word |-> pattern, rank |-> 1])
             ELSE [k \in 1..Len(list) |->
                      IF k \in found
                      THEN [list[k] EXCEPT !.rank = list[k].rank + 1]
                      ELSE list[k]]

\* entropy_sum without the weight P_k of each pattern
RECURSIVE entropy_sum_Unweighted(_, _, _)
entropy_sum_Unweighted(list, k, N) ==
    IF k = 0 THEN 0
    ELSE entropy_sum_Unweighted(list, k - 1, N)
            + N * (Log2Micro[N] - Log2Micro[list[k].rank])

\* calculate_entropy_score, step 2: the sum over the nodes of
\* count_k * log2(N / count_k); the score is this sum divided by N
RECURSIVE entropy_sum(_, _, _)
entropy_sum(list, k, N) ==
    IF k = 0 THEN 0
    ELSE entropy_sum(list, k - 1, N)
            + list[k].rank * (Log2Micro[N] - Log2Micro[list[k].rank])

calculate_entropy_score(guess, possibleAnswers, numPossibleAnswers_) ==
    IF numPossibleAnswers_ <= 1 THEN 0
    ELSE LET list == pattern_counts(guess, possibleAnswers, numPossibleAnswers_)
         IN  entropy_sum(list, Len(list), numPossibleAnswers_)
                 \div numPossibleAnswers_

\* get_linguistic_types: the dictionary entry of the word, or the defaults
get_linguistic_types(word, pDictionary) ==
    LET found == {i \in 1..Len(pDictionary) : pDictionary[i].word = word}
    IN  IF found # {}
        THEN LET pFound == pDictionary[CHOOSE i \in found : TRUE]
             IN  [nounType |-> pFound.nounType, verbType |-> pFound.verbType,
                  rank |-> pFound.rank]
        ELSE [nounType |-> "N", verbType |-> "N", rank |-> 0]

is_guess_word_risky(guess, pGood) ==
    \E i \in 1..Len(guess) :
        /\ CountIn(guess, guess[i]) > 1
        /\ CountIn(guess, guess[i]) > CountIn(pGood, guess[i])

\* one round of the loop of calculate_all_metrics: the metric of pWord
metric_of(pDictionary, pWord, possibleAnswers, numPossibleAnswers_, pGood) ==
    LET types == get_linguistic_types(pWord, pDictionary)
    IN  [word |-> pWord,
         entropy |-> calculate_entropy_score(pWord, possibleAnswers,
                                             numPossibleAnswers_),
         entropy_nano |-> 0,
         rank |-> types.rank,
         is_risky |-> is_guess_word_risky(pWord, pGood),
         nounType |-> types.nounType,
         verbType |-> types.verbType]

calculate_all_metrics(pDictionary, possibleAnswers, numPossibleAnswers_, pGood) ==
    [i \in 1..numPossibleAnswers_ |->
        metric_of(pDictionary, possibleAnswers[i], possibleAnswers,
                  numPossibleAnswers_, pGood)]

sortMetricsByEntropyDescending(p1, p2) ==
    IF FLOAT_GREATER(double_of(p1), double_of(p2)) THEN -1
    ELSE IF FLOAT_GREATER(double_of(p2), double_of(p1)) THEN 1
    ELSE p2.rank - p1.rank

sortMetricsByRankDescending(p1, p2) ==
    IF p2.rank > p1.rank THEN 1
    ELSE IF p1.rank > p2.rank THEN -1
    ELSE IF FLOAT_GREATER(double_of(p1), double_of(p2)) THEN -1
    ELSE IF FLOAT_GREATER(double_of(p2), double_of(p1)) THEN 1
    ELSE 0

compare_metrics(byRank, p1, p2) ==
    IF byRank THEN sortMetricsByRankDescending(p1, p2)
    ELSE sortMetricsByEntropyDescending(p1, p2)

\* what the comparator returns for every two entries of the array, held as
\* a tuple of tuples
comparisons(array, n, byRank) ==
    <<>> \o [i \in 1..n |-> <<>> \o [j \in 1..n |->
        compare_metrics(byRank, array[i], array[j])]]

\* The arrangements (of the places 1..n of the array) in which no entry comes
\* after one the comparator puts behind it; entries that compare equal may
\* come out in either order.  Built by inserting the entries one by one at
\* every place the comparator allows.
qsort_insert(sorted, r, cmp) ==
    LET before == Cardinality({j \in 1..Len(sorted) : cmp[sorted[j]][r] < 0})
        upto == Cardinality({j \in 1..Len(sorted) : cmp[sorted[j]][r] <= 0})
    IN  {SubSeq(sorted, 1, k) \o <<r>> \o SubSeq(sorted, k + 1, Len(sorted)) :
            k \in before..upto}

RECURSIVE sorted_arrangements(_, _)
sorted_arrangements(n, cmp) ==
    IF n = 0 THEN {<<>>}
    ELSE UNION {qsort_insert(sorted, n, cmp) :
                   sorted \in sorted_arrangements(n - 1, cmp)}

\* every arrangement of the places 1..n
RECURSIVE arrangements(_)
arrangements(n) ==
    IF n = 0 THEN {<<>>}
    ELSE {SubSeq(a, 1, k) \o <<n>> \o SubSeq(a, k + 1, n - 1) :
             a \in arrangements(n - 1), k \in 0..(n - 1)}

\* the comparator is a consistent ordering of the entries: it compares any
\* two of them as it compares the numbers of entries it puts before each
consistent_order(n, cmp) ==
    \E before \in {<<>> \o [i \in 1..n |->
                       Cardinality({j \in 1..n : cmp[j][i] < 0})]} :
        \A i, j \in 1..n :
            /\ cmp[i][j] < 0 <=> before[i] < before[j]
            /\ cmp[i][j] > 0 <=> before[i] > before[j]

qsort_places(n, cmp) ==
    IF consistent_order(n, cmp)
    THEN sorted_arrangements(n, cmp)
    ELSE arrangements(n)

\* qsort: with a comparator that orders the entries consistently, the sorted
\* arrangements; with one that does not, the call has no defined result and
\* the array may come out in any arrangement.
qsort(array, n, byRank) ==
    {[k \in 1..n |-> array[places[k]]] :
        places \in qsort_places(n, comparisons(array, n, byRank))}

\* create_and_sort_metric_buffers: the pairs of sorted copies it may produce
create_and_sort_metric_buffers(table, numPossibleAnswers_) ==
    {[pRankSorted |-> r, pEntropySorted |-> e] :
        r \in qsort(table, numPossibleAnswers_, TRUE),
        e \in qsort(table, numPossibleAnswers_, FALSE)}

\* the admissibility test without the third-person check
admissible_NoThirdPerson(pMetric) ==
    /\ pMetric.nounType # "P"
    /\ pMetric.verbType # "T"
    /\ pMetric.is_risky = FALSE

\* the admissibility test of find_top_linguistic_picks (lines 1055-1056)
admissible(pMetric) ==
    /\ pMetric.nounType # "P"
    /\ pMetric.verbType # "T"
    /\ pMetric.verbType # "S"
    /\ pMetric.is_risky = FALSE

\* the search loop of find_top_linguistic_picks (lines 1049-1070)
RECURSIVE top_picks_scan(_, _, _, _)
top_picks_scan(pSortedMetrics, numMetrics, i, res) ==
    IF i > numMetrics THEN res
    ELSE IF admissible(pSortedMetrics[i])
    THEN IF res.found_count = 0
         THEN top_picks_scan(pSortedMetrics, numMetrics, i + 1,
                             [res EXCEPT !.word = pSortedMetrics[i].word,
                                         !.found_count = 1])
         ELSE [res EXCEPT !.alternate_word = pSortedMetrics[i].word,
                          !.found_count = 2]
    ELSE top_picks_scan(pSortedMetrics, numMetrics, i + 1, res)

\* the fallback of find_top_linguistic_picks without the step that makes the
\* absolute top entry the primary pick
top_picks_fallback_NoPrimary(pSortedMetrics, numMetrics, res) ==
    IF res.found_count = 1 /\ numMetrics > 0
    THEN IF numMetrics > 1
         THEN [word |-> res.word,
               alternate_word |->
                   IF res.alternate_word = NONE
                      /\ pSortedMetrics[2].word # res.word
                   THEN pSortedMetrics[2].word
                   ELSE res.alternate_word]
         ELSE [word |-> res.word, alternate_word |-> NONE]
    ELSE [word |-> res.word, alternate_word |-> res.alternate_word]

\* the fallback of find_top_linguistic_picks (lines 1072-1098)
top_picks_fallback(pSortedMetrics, numMetrics, res) ==
    IF res.found_count < 2 /\ numMetrics > 0
    THEN LET word == IF res.found_count = 0
                     THEN pSortedMetrics[1].word ELSE res.word
         IN  IF numMetrics > 1
             THEN [word |-> word,
                   alternate_word |->
                       IF res.alternate_word = NONE
                          /\ pSortedMetrics[2].word # word
                       THEN pSortedMetrics[2].word
                       ELSE res.alternate_word]
             ELSE [word |-> word, alternate_word |-> NONE]
    ELSE [word |-> res.word, alternate_word |-> res.alternate_word]

find_top_linguistic_picks(pSortedMetrics, numMetrics) ==
    top_picks_fallback(pSortedMetrics, numMetrics,
        top_picks_scan(pSortedMetrics, numMetrics, 1,
                       [word |-> NONE, alternate_word |-> NONE,
                        found_count |-> 0]))

\* find_metric_by_word: the index of the first entry with that word, 0 for NULL
find_metric_by_word(word, pArray, num) ==
    IF word = NONE THEN 0
    ELSE LET hits == {i \in 1..num : pArray[i].word = word}
         IN  IF hits = {} THEN 0
             ELSE CHOOSE i \in hits : \A j \in hits : i <= j

\* determine_final_pick taking a gap of exactly the threshold as significant
determine_final_pick_AtLeast(rankSorted, entropySorted, num, rPicks, ePicks) ==
    LET pR_Pick == find_metric_by_word(rPicks.word, rankSorted, num)
        pE_Pick == find_metric_by_word(ePicks.word, entropySorted, num)
    IN  IF pR_Pick # 0 /\ pE_Pick # 0
        THEN LET entropy_diff ==
                     fabs(double_minus(double_of(entropySorted[pE_Pick]),
                                       double_of(rankSorted[pR_Pick])))
             IN  IF num > LOW_POSSIBLE_ANSWER_COUNT
                 THEN IF ~double_greater(<<ENTROPY_RANK_THRESHOLD, 0>>,
                                         entropy_diff)
                      THEN entropySorted[pE_Pick].word
                      ELSE rPicks.word
                 ELSE rankSorted[1].word
        ELSE IF num > 0
        THEN rankSorted[1].word
        ELSE rPicks.word

\* determine_final_pick treating a list of exactly 25 as a large one
determine_final_pick_LargeAt25(rankSorted, entropySorted, num, rPicks, ePicks) ==
    LET pR_Pick == find_metric_by_word(rPicks.word, rankSorted, num)
        pE_Pick == find_metric_by_word(ePicks.word, entropySorted, num)
    IN  IF pR_Pick # 0 /\ pE_Pick # 0
        THEN LET entropy_diff ==
                     fabs(double_minus(double_of(entropySorted[pE_Pick]),
                                       double_of(rankSorted[pR_Pick])))
             IN  IF num >= LOW_POSSIBLE_ANSWER_COUNT
                 THEN IF double_greater(entropy_diff,
                                        <<ENTROPY_RANK_THRESHOLD, 0>>)
                      THEN entropySorted[pE_Pick].word
                      ELSE rPicks.word
                 ELSE rankSorted[1].word
        ELSE IF num > 0
        THEN rankSorted[1].word
        ELSE rPicks.word

\* determine_final_pick: the word of the banner
determine_final_pick(rankSorted, entropySorted, num, rPicks, ePicks) ==
    LET pR_Pick == find_metric_by_word(rPicks.word, rankSorted, num)
        pE_Pick == find_metric_by_word(ePicks.word, entropySorted, num)
    IN  IF pR_Pick # 0 /\ pE_Pick # 0
        THEN LET entropy_diff ==
                     fabs(double_minus(double_of(entropySorted[pE_Pick]),
                                       double_of(rankSorted[pR_Pick])))
             IN  IF num > LOW_POSSIBLE_ANSWER_COUNT
                 THEN IF double_greater(entropy_diff,
                                        <<ENTROPY_RANK_THRESHOLD, 0>>)
                      THEN entropySorted[pE_Pick].word
                      ELSE rPicks.word
                 ELSE rankSorted[1].word
        ELSE IF num > 0
        THEN rankSorted[1].word
        ELSE rPicks.word

\* picks_of with the rank sort done on the metric table itself
picks_of_SortInPlace(table, views, num) ==
    LET rPicks == find_top_linguistic_picks(views.pRankSorted, num)
        ePicks == find_top_linguistic_picks(views.pEntropySorted, num)
    IN  [pMetricsTable |-> views.pRankSorted,
         pRankSorted |-> views.pRankSorted,
         pEntropySorted |-> views.pEntropySorted,
         rankPicks |-> rPicks,
         entropyPicks |-> ePicks,
         final_word |-> determine_final_pick(views.pRankSorted,
                                             views.pEntropySorted, num,
                                             rPicks, ePicks)]

\* steps 3 and 5 of analyze_and_print_recommendations on one pair of views
picks_of(table, views, num) ==
    LET rPicks == find_top_linguistic_picks(views.pRankSorted, num)
        ePicks == find_top_linguistic_picks(views.pEntropySorted, num)
    IN  [pMetricsTable |-> table,
         pRankSorted |-> views.pRankSorted,
         pEntropySorted |-> views.pEntropySorted,
         rankPicks |-> rPicks,
         entropyPicks |-> ePicks,
         final_word |-> determine_final_pick(views.pRankSorted,
                                             views.pEntropySorted, num,
                                             rPicks, ePicks)]

\* analyze_and_print_recommendations: what it may leave behind, given what
\* was there before (prev); nothing is computed for an empty candidate list
analyze_and_print_recommendations(pDictionary, possibleAnswers, num, pGood, prev) ==
    IF num = 0 THEN {prev}
    ELSE LET table == calculate_all_metrics(pDictionary, possibleAnswers, num, pGood)
         IN  {picks_of(table, views, num) :
                 views \in create_and_sort_metric_buffers(table, num)}

\* nothing analysed yet
NoAnalysis ==
    [pMetricsTable |-> <<>>, pRankSorted |-> <<>>, pEntropySorted |-> <<>>,
     rankPicks |-> [word |-> NONE, alternate_word |-> NONE],
     entropyPicks |-> [word |-> NONE, alternate_word |-> NONE],
     final_word |-> NONE]

(***************************************************************************)
(* main: initialisation and the turn loop.                                 *)
(***************************************************************************)
NoTwin == <<>>

\* a run of main as one value: where it is, its constraint buffers, its
\* candidate array and what the last recommendation left
RunState(pc_, tryIdx, cs, arr, num, an) ==
    [pc |-> pc_, g_tryIdx |-> tryIdx, cs |-> cs, arr |-> arr, num |-> num,
     an |-> an]

Analysis ==
    [pMetricsTable |-> pMetricsTable, pRankSorted |-> pRankSorted,
     pEntropySorted |-> pEntropySorted, rankPicks |-> rankPicks,
     entropyPicks |-> entropyPicks, final_word |-> final_word]

Here ==
    RunState(pc, g_tryIdx, Constraints, pPossibleAnswers, numPossibleAnswers,
             Analysis)

\* main up to the first prompt (lines 1333-1376): the runs it may start in
initial_runs(pDictionary) ==
    {RunState("prompt", 1,
              [pMask |-> EmptyMask,
               notMask |-> [t \in 1..MAX_TRIES |-> EmptyMask],
               pGood |-> <<>>, pBad |-> <<>>],
              InitialAnswers, Len(InitialAnswers), an) :
        an \in analyze_and_print_recommendations(pDictionary, InitialAnswers,
                   Len(InitialAnswers), <<>>, NoAnalysis)}

\* the variables of the model hold the run st
AtRun(st) ==
    /\ pc = st.pc
    /\ g_tryIdx = st.g_tryIdx
    /\ mask = st.cs.pMask
    /\ notMask = st.cs.notMask
    /\ goodButDontKnowWhere = st.cs.pGood
    /\ cannotHave = st.cs.pBad
    /\ pPossibleAnswers = st.arr
    /\ numPossibleAnswers = st.num
    /\ pMetricsTable = st.an.pMetricsTable
    /\ pRankSorted = st.an.pRankSorted
    /\ pEntropySorted = st.an.pEntropySorted
    /\ rankPicks = st.an.rankPicks
    /\ entropyPicks = st.an.entropyPicks
    /\ final_word = st.an.final_word

Init ==
    /\ \E st \in initial_runs(pDictionaryTable) : AtRun(st)
    /\ buffer = NoWord
    /\ result_input = NoWord
    /\ answer = NoWord
    /\ twin = NoTwin

\* the writes of update_game_constraints stay inside main's buffers
InsideBuffers(s) ==
    /\ Len(s.pGood) <= WORD_SIZE
    /\ Len(s.pBad) < BAD_CAPACITY

\* turn_after_filter running the metric, sort and pick steps on whatever
\* the filter left, an empty list included
turn_after_filter_AlwaysAnalyze(pDictionary, st, s, f) ==
    {RunState(IF f.num = 0 THEN "error"
              ELSE IF f.num = 1 THEN "identified"
              ELSE IF st.g_tryIdx + 1 <= MAX_TRIES THEN "prompt"
              ELSE "exhausted",
              IF f.num >= 2 THEN st.g_tryIdx + 1 ELSE st.g_tryIdx,
              s, f.arr, f.num, an) :
        an \in LET table == calculate_all_metrics(pDictionary, f.arr, f.num,
                                                  s.pGood)
               IN  {picks_of(table, views, f.num) :
                       views \in create_and_sort_metric_buffers(table, f.num)}}

\* turn_after_filter announcing the first candidate as the solution when two
\* candidates are left
turn_after_filter_IdentifiedAtTwo(pDictionary, st, s, f) ==
    {RunState(IF f.num = 0 THEN "error"
              ELSE IF f.num <= 2 THEN "identified"
              ELSE IF st.g_tryIdx + 1 <= MAX_TRIES THEN "prompt"
              ELSE "exhausted",
              IF f.num >= 3 THEN st.g_tryIdx + 1 ELSE st.g_tryIdx,
              s, f.arr, f.num, an) :
        an \in IF f.num > 0
               THEN analyze_and_print_recommendations(pDictionary, f.arr,
                                                      f.num, s.pGood, st.an)
               ELSE {st.an}}

\* lines 1437-1451: after the filter
turn_after_filter(pDictionary, st, s, f) ==
    {RunState(IF f.num = 0 THEN "error"
              ELSE IF f.num = 1 THEN "identified"
              ELSE IF st.g_tryIdx + 1 <= MAX_TRIES THEN "prompt"
              ELSE "exhausted",
              IF f.num >= 2 THEN st.g_tryIdx + 1 ELSE st.g_tryIdx,
              s, f.arr, f.num, an) :
        an \in IF f.num > 0
               THEN analyze_and_print_recommendations(pDictionary, f.arr,
                                                      f.num, s.pGood, st.an)
               ELSE {st.an}}

\* turn_after_update filtering the whole initial candidate list again
\* instead of the live one
turn_after_update_RefilterAll(pDictionary, st, s) ==
    IF ~InsideBuffers(s)
    THEN {[st EXCEPT !.pc = "undefined", !.cs = s]}
    ELSE IF ~strchr(s.pMask, Star)
    THEN {[st EXCEPT !.pc = "solved", !.cs = s]}
    ELSE turn_after_filter(pDictionary, st, s,
             filter_possible_answers(InitialAnswers, Len(InitialAnswers), s))

\* turn_after_update with the filter also dropping the words the dictionary
\* tags as plural
turn_after_update_DropPlurals(pDictionary, st, s) ==
    IF ~InsideBuffers(s)
    THEN {[st EXCEPT !.pc = "undefined", !.cs = s]}
    ELSE IF ~strchr(s.pMask, Star)
    THEN {[st EXCEPT !.pc = "solved", !.cs = s]}
    ELSE LET f == filter_possible_answers(st.arr, st.num, s)
             NotPlural(w) == get_linguistic_types(w, pDictionary).nounType # "P"
             kept == SelectSeq(SubSeq(f.arr, 1, f.num), NotPlural)
         IN  turn_after_filter(pDictionary, st, s,
                               [arr |-> kept, num |-> Len(kept)])

\* lines 1427-1435: after update_game_constraints.  A write past the end of
\* goodButDontKnowWhere or cannotHave is undefined behaviour: the model
\* records the strings the function computed and stops in pc = "undefined".
turn_after_update(pDictionary, st, s) ==
    IF ~InsideBuffers(s)
    THEN {[st EXCEPT !.pc = "undefined", !.cs = s]}
    ELSE IF ~strchr(s.pMask, Star)
    THEN {[st EXCEPT !.pc = "solved", !.cs = s]}
    ELSE turn_after_filter(pDictionary, st, s,
             filter_possible_answers(st.arr, st.num, s))

\* lines 1419-1451 on the run st: update, solution check, filter, analysis
turn_body(pDictionary, st, guess, result) ==
    turn_after_update(pDictionary, st,
        update_game_constraints(guess, result, st.cs, st.g_tryIdx))

\* the variables of the model move to the run st
ToRun(st) ==
    /\ pc' = st.pc
    /\ g_tryIdx' = st.g_tryIdx
    /\ mask' = st.cs.pMask
    /\ notMask' = st.cs.notMask
    /\ goodButDontKnowWhere' = st.cs.pGood
    /\ cannotHave' = st.cs.pBad
    /\ pPossibleAnswers' = st.arr
    /\ numPossibleAnswers' = st.num
    /\ pMetricsTable' = st.an.pMetricsTable
    /\ pRankSorted' = st.an.pRankSorted
    /\ pEntropySorted' = st.an.pEntropySorted
    /\ rankPicks' = st.an.rankPicks
    /\ entropyPicks' = st.an.entropyPicks
    /\ final_word' = st.an.final_word

\* trim: the string without its trailing white space
Whitespace == {" ", "\t", "\n", "\r"}

trim(str) ==
    LET kept == {k \in 1..Len(str) : str[k] \notin Whitespace}
    IN  IF kept = {} THEN <<>>
        ELSE SubSeq(str, 1, CHOOSE k \in kept : \A j \in kept : j <= k)

Quit_q == <<"q">>

\* lines 1386-1395 with a line of 5 characters: the guess is taken
ReadGuess(line) ==
    /\ pc = "prompt"
    /\ g_tryIdx <= MAX_TRIES
    /\ trim(line) # Quit_q
    /\ Len(trim(line)) = WORD_SIZE
    /\ buffer' = trim(line)
    /\ pc' = "feedback"
    /\ UNCHANGED <<g_tryIdx, mask, notMask, goodButDontKnowWhere, cannotHave,
                   pPossibleAnswers, numPossibleAnswers, result_input, answer,
                   analysisVars, twin>>

\* The rest of one iteration of the turn loop, with the guess read before
\* and a feedback string the validation loop accepts.
Turn(guess, result) ==
    /\ pc = "feedback"
    /\ buffer = guess
    /\ g_tryIdx <= MAX_TRIES
    /\ \E st \in turn_body(pDictionaryTable, Here, guess, result) : ToRun(st)
    /\ result_input' = result
    /\ UNCHANGED <<buffer, answer, twin>>

\* the player types q at the guess prompt, or standard input ends at either
\* prompt
Quit ==
    /\ pc \in {"prompt", "feedback"}
    /\ g_tryIdx <= MAX_TRIES
    /\ pc' = "quit"
    /\ UNCHANGED <<g_tryIdx, mask, notMask, goodButDontKnowWhere, cannotHave,
                   pPossibleAnswers, numPossibleAnswers, buffer, result_input,
                   answer, analysisVars, twin>>

Next ==
    \/ \E line \in GuessWords : ReadGuess(line)
    \/ \E guess \in GuessWords, result \in Patterns : Turn(guess, result)
    \/ Quit

Spec == Init /\ [][Next]_vars

(***************************************************************************)
(* The turn loop with everything the player may type: lines of the wrong   *)
(* length at the guess prompt, any line at the feedback prompt.            *)
(***************************************************************************)
\* lines 1390-1395 without g_tryIdx--: the refused line uses up a turn
RejectGuess_UsesTurn(line) ==
    /\ pc = "prompt"
    /\ g_tryIdx <= MAX_TRIES
    /\ trim(line) # Quit_q
    /\ Len(trim(line)) # WORD_SIZE
    /\ buffer' = trim(line)
    /\ g_tryIdx' = g_tryIdx + 1
    /\ pc' = IF g_tryIdx + 1 <= MAX_TRIES THEN "prompt" ELSE "exhausted"
    /\ UNCHANGED <<mask, notMask, goodButDontKnowWhere, cannotHave,
                   pPossibleAnswers, numPossibleAnswers, result_input, answer,
                   analysisVars, twin>>

\* lines 1390-1395: a guess that is not 5 characters long
RejectGuess(line) ==
    /\ pc = "prompt"
    /\ g_tryIdx <= MAX_TRIES
    /\ trim(line) # Quit_q
    /\ Len(trim(line)) # WORD_SIZE
    /\ buffer' = trim(line)
    /\ g_tryIdx' = (g_tryIdx - 1) + 1
    /\ pc' = "prompt"
    /\ UNCHANGED <<mask, notMask, goodButDontKnowWhere, cannotHave,
                   pPossibleAnswers, numPossibleAnswers, result_input, answer,
                   analysisVars, twin>>

\* lines 1401-1403: fgets takes at most 5 characters of the line (the rest
\* is dropped by clear_input_buffer), trim takes the newline and blanks off
read_result(line) ==
    trim(IF Len(line) >= WORD_SIZE THEN SubSeq(line, 1, WORD_SIZE)
         ELSE Append(line, "\n"))

\* the validation loop letting the symbol X through
validate_result_AllowsX(text) ==
    LET bad == {i \in 1..WORD_SIZE :
                   \/ i > Len(text)
                   \/ toupper(text[i]) \notin {"B", "G", "Y", "X"}}
        stop == IF bad = {} THEN WORD_SIZE
                ELSE CHOOSE i \in bad : \A j \in bad : i <= j
    IN  [valid |-> bad = {},
         text |-> [i \in 1..Len(text) |->
                      IF i <= stop THEN toupper(text[i]) ELSE text[i]]]

\* lines 1405-1416: the characters are put in upper case one by one up to
\* the first that is not B, G or Y (the terminating NUL of a short string
\* is one)
validate_result(text) ==
    LET bad == {i \in 1..WORD_SIZE :
                   \/ i > Len(text)
                   \/ toupper(text[i]) \notin {"B", "G", "Y"}}
        stop == IF bad = {} THEN WORD_SIZE
                ELSE CHOOSE i \in bad : \A j \in bad : i <= j
    IN  [valid |-> bad = {},
         text |-> [i \in 1..Len(text) |->
                      IF i <= stop THEN toupper(text[i]) ELSE text[i]]]

\* lines 1398-1417 with a line the validation refuses: same prompt again
RejectResult(line) ==
    /\ pc = "feedback"
    /\ g_tryIdx <= MAX_TRIES
    /\ \E v \in {validate_result(read_result(line))} :
          /\ ~v.valid
          /\ result_input' = v.text
    /\ pc' = "feedback"
    /\ UNCHANGED <<g_tryIdx, mask, notMask, goodButDontKnowWhere, cannotHave,
                   pPossibleAnswers, numPossibleAnswers, buffer, answer,
                   analysisVars, twin>>

\* lines 1398-1452 with a line the validation accepts
TurnOnLine(line) ==
    \E v \in {validate_result(read_result(line))} :
        /\ v.valid
        /\ Turn(buffer, v.text)

\* what is typed at the guess prompt: the guesses, and lines that are too
\* short, too long, empty or padded with a blank
BadGuessLines ==
    { <<"S","T","A","R">>, <<"S","T","A","R","E","S">>, <<>>,
      <<"S","T","A","R"," ">> }

GuessLines == GuessWords \cup {Append(g, " ") : g \in GuessWords}

\* what is typed at the feedback prompt: feedback in lower and upper case,
\* and lines with a foreign symbol, too short, empty, too long
ResultLines ==
    [Positions -> {"b", "Y"}]
        \cup { <<"G","b","G","G","G">>, <<"g","B","B","B","G">>,
                <<"B","G","X","B","B">>, <<"B","Y","Y","B","X">>,
                <<"B","G">>, <<>>, <<"B","G","Y","B"," ">>,
                <<"B","Y","G","Y","G","X">>, <<"b","b","b","b","g","g">> }

NextInput ==
    \/ \E line \in GuessLines : ReadGuess(line)
    \/ \E line \in BadGuessLines : RejectGuess(line)
    \/ \E line \in ResultLines : RejectResult(line)
    \/ \E line \in ResultLines : TurnOnLine(line)
    \/ Quit

SpecInput == Init /\ [][NextInput]_vars

(***************************************************************************)
(* Two runs of main on the same words and the same input, the second with  *)
(* other ranks and tags in its dictionary.                                 *)
(***************************************************************************)
\* the dictionary with the ranks turned round
ReversedRanks ==
    [i \in 1..Len(pDictionaryTable) |->
        [pDictionaryTable[i] EXCEPT !.rank = 100 - @]]

\* the dictionary with every word a plural and a preterite, and the ranks
\* halved
AllInadmissible ==
    [i \in 1..Len(pDictionaryTable) |->
        [pDictionaryTable[i] EXCEPT !.rank = @ \div 2, !.nounType = "P",
                                    !.verbType = "T"]]

\* the dictionary with every word taking the tags of the word after it
ShiftedTags ==
    [i \in 1..Len(pDictionaryTable) |->
        LET next == pDictionaryTable[(i % Len(pDictionaryTable)) + 1]
        IN  [pDictionaryTable[i] EXCEPT !.nounType = next.nounType,
                                        !.verbType = next.verbType]]

TwinDictionaries == {ReversedRanks, AllInadmissible, ShiftedTags}

\* the feedback a guess can get against some word of the dictionary
TwinPatterns ==
    {get_feedback_pattern([i \in Positions |-> toupper(g[i])], a) :
        g \in GuessWords, a \in DictWords}

InitTwin ==
    /\ \E st \in initial_runs(pDictionaryTable) : AtRun(st)
    /\ buffer = NoWord
    /\ result_input = NoWord
    /\ answer = NoWord
    /\ \E d \in TwinDictionaries :
          \E st \in initial_runs(d) : twin = [dict |-> d, st |-> st]

\* Turn in both runs
TurnBoth(guess, result) ==
    /\ pc = "feedback"
    /\ buffer = guess
    /\ g_tryIdx <= MAX_TRIES
    /\ \E st \in turn_body(pDictionaryTable, Here, guess, result) : ToRun(st)
    /\ \E st \in turn_body(twin.dict, twin.st, guess, result) :
          twin' = [twin EXCEPT !.st = st]
    /\ result_input' = result
    /\ UNCHANGED <<buffer, answer>>

NextTwin ==
    \/ \E line \in GuessWords : ReadGuess(line)
    \/ \E guess \in GuessWords, result \in TwinPatterns : TurnBoth(guess, result)
    \/ Quit

SpecTwin == InitTwin /\ [][NextTwin]_vars

(***************************************************************************)
(* A game against one hidden answer: every feedback typed is the pattern   *)
(* of the guess against that answer.                                       *)
(***************************************************************************)
InitPlay ==
    /\ \E st \in initial_runs(pDictionaryTable) : AtRun(st)
    /\ buffer = NoWord
    /\ result_input = NoWord
    /\ answer \in {InitialAnswers[i] : i \in 1..Len(InitialAnswers)}
    /\ twin = NoTwin

\* Turn with the feedback the hidden answer gives the guess
Play(guess) ==
    Turn(guess,
         get_feedback_pattern([i \in Positions |-> toupper(guess[i])], answer))

NextPlay ==
    \/ \E line \in GuessWords : ReadGuess(line)
    \/ \E guess \in GuessWords : Play(guess)
    \/ Quit

SpecPlay == InitPlay /\ [][NextPlay]_vars

(***************************************************************************)
(* The feedback evaluator run on its own: one hidden answer, one guess,    *)
(* one call of get_feedback_pattern (as calculate_entropy_score makes it). *)
(***************************************************************************)
FbLetters == {Alphabet[i] : i \in 1..NumLetters}

CRANE == <<"C", "R", "A", "N", "E">>
TRACE == <<"T", "R", "A", "C", "E">>

\* the words the evaluator is run on: every word over FbLetters, and the two
\* words of the end-to-end scenario
FbWords == [Positions -> FbLetters] \cup {CRANE, TRACE}

InitFeedback ==
    /\ pc = "compare"
    /\ answer \in FbWords
    /\ g_tryIdx = 1
    /\ mask = EmptyMask
    /\ notMask = [t \in 1..MAX_TRIES |-> EmptyMask]
    /\ goodButDontKnowWhere = <<>>
    /\ cannotHave = <<>>
    /\ pPossibleAnswers = <<>>
    /\ numPossibleAnswers = 0
    /\ buffer = NoWord
    /\ result_input = NoWord
    /\ pMetricsTable = NoAnalysis.pMetricsTable
    /\ pRankSorted = NoAnalysis.pRankSorted
    /\ pEntropySorted = NoAnalysis.pEntropySorted
    /\ rankPicks = NoAnalysis.rankPicks
    /\ entropyPicks = NoAnalysis.entropyPicks
    /\ final_word = NoAnalysis.final_word
    /\ twin = NoTwin

Compare(guess) ==
    /\ pc = "compare"
    /\ pc' = "compared"
    /\ buffer' = guess
    /\ result_input' = get_feedback_pattern(guess, answer)
    /\ UNCHANGED <<g_tryIdx, mask, notMask, goodButDontKnowWhere, cannotHave,
                   pPossibleAnswers, numPossibleAnswers, answer, analysisVars,
                   twin>>

NextFeedback == \E guess \in FbWords : Compare(guess)

SpecFeedback == InitFeedback /\ [][NextFeedback]_vars

(***************************************************************************)
(* The recommendation run on its own on a metric table: the two sorts,     *)
(* the picks of both axes, the final pick (steps 2, 3 and 5 of             *)
(* analyze_and_print_recommendations).                                     *)
(***************************************************************************)
HeadWord(i) == <<"H", "E", "A", "D", Alphabet[i]>>

PadWord(i) == <<"P", "A", "D", "S", Alphabet[i]>>

PickRanks == {10, 20}

PickEntropies == {0, 300000, 800000, 1300000}

\* nounType, verbType, is_risky of a table entry: one admissible
\* combination and one for each way of not being admissible
PickTags ==
    { <<"N", "N", FALSE>>, <<"P", "N", FALSE>>, <<"N", "T", FALSE>>,
      <<"N", "S", FALSE>>, <<"S", "P", TRUE>> }

\* the first two head entries take every combination; a further head is an
\* entry of the top rank, admissible or a third-person verb, at either end of
\* the entropies
HeadMetrics(i) ==
    IF i <= 2
    THEN {[word |-> HeadWord(i), entropy |-> e, entropy_nano |-> 0,
           rank |-> r, is_risky |-> g[3],
           nounType |-> g[1], verbType |-> g[2]] :
             e \in PickEntropies, r \in PickRanks, g \in PickTags}
    ELSE {[word |-> HeadWord(i), entropy |-> e, entropy_nano |-> 0,
           rank |-> 20, is_risky |-> FALSE,
           nounType |-> "N", verbType |-> v] :
             e \in {0, 1300000}, v \in {"N", "S"}}

\* filler entries: admissible, rank 0, entropies 0.05 bit apart
PadMetric(i) ==
    [word |-> PadWord(i), entropy |-> 50000 * i, entropy_nano |-> 0,
     rank |-> 0, is_risky |-> FALSE,
     nounType |-> "N", verbType |-> "N"]

\* with up to NumHeads head entries the tables have 0, 1, 2 entries and
\* 23 to 26 entries, on both sides of LOW_POSSIBLE_ANSWER_COUNT
PadCounts ==
    {0, LOW_POSSIBLE_ANSWER_COUNT - 2, LOW_POSSIBLE_ANSWER_COUNT - 1}

RECURSIVE HeadTables(_)
HeadTables(k) ==
    IF k = 0 THEN {<<>>}
    ELSE {Append(t, m) : t \in HeadTables(k - 1), m \in HeadMetrics(k)}

PickTables(k, pad) ==
    {t \o [i \in 1..pad |-> PadMetric(i)] : t \in HeadTables(k)}

InitPick ==
    /\ pc = "analyze"
    /\ \E k \in 0..NumHeads, pad \in PadCounts :
          pMetricsTable \in PickTables(k, pad)
    /\ numPossibleAnswers = Len(pMetricsTable)
    /\ pPossibleAnswers = [i \in 1..Len(pMetricsTable) |-> pMetricsTable[i].word]
    /\ g_tryIdx = 1
    /\ mask = EmptyMask
    /\ notMask = [t \in 1..MAX_TRIES |-> EmptyMask]
    /\ goodButDontKnowWhere = <<>>
    /\ cannotHave = <<>>
    /\ buffer = NoWord
    /\ result_input = NoWord
    /\ answer = NoWord
    /\ pRankSorted = NoAnalysis.pRankSorted
    /\ pEntropySorted = NoAnalysis.pEntropySorted
    /\ rankPicks = NoAnalysis.rankPicks
    /\ entropyPicks = NoAnalysis.entropyPicks
    /\ final_word = NoAnalysis.final_word
    /\ twin = NoTwin

pickFrame ==
    <<g_tryIdx, mask, notMask, goodButDontKnowWhere, cannotHave,
      pPossibleAnswers, numPossibleAnswers, buffer, result_input, answer,
      pMetricsTable, twin>>

\* step 2: create_and_sort_metric_buffers
SortViews ==
    /\ pc = "analyze"
    /\ pc' = "sorted"
    /\ \E views \in create_and_sort_metric_buffers(pMetricsTable,
                                                   numPossibleAnswers) :
          /\ pRankSorted' = views.pRankSorted
          /\ pEntropySorted' = views.pEntropySorted
    /\ UNCHANGED <<rankPicks, entropyPicks, final_word>>
    /\ UNCHANGED pickFrame

\* step 3: find_top_linguistic_picks on both views
FindPicks ==
    /\ pc = "sorted"
    /\ pc' = "picked"
    /\ rankPicks' = find_top_linguistic_picks(pRankSorted, numPossibleAnswers)
    /\ entropyPicks' = find_top_linguistic_picks(pEntropySorted,
                                                 numPossibleAnswers)
    /\ UNCHANGED <<pRankSorted, pEntropySorted, final_word>>
    /\ UNCHANGED pickFrame

\* step 5: determine_final_pick
FinalPick ==
    /\ pc = "picked"
    /\ pc' = "final"
    /\ final_word' = determine_final_pick(pRankSorted, pEntropySorted,
                         numPossibleAnswers, rankPicks, entropyPicks)
    /\ UNCHANGED <<pRankSorted, pEntropySorted, rankPicks, entropyPicks>>
    /\ UNCHANGED pickFrame

NextPick == SortViews \/ FindPicks \/ FinalPick

SpecPick == InitPick /\ [][NextPick]_vars

(***************************************************************************)
(* Properties.                                                             *)
(***************************************************************************)
AllGreen == [i \in Positions |-> "G"]

\* the letters that occur in the words of the model, and one that does not
ClaimLetters ==
    FbLetters
        \cup UNION {{toupper(GuessList[i][k]) : k \in Positions} : i \in 1..Len(GuessList)}
        \cup UNION {{DictionaryList[i].word[k] : k \in Positions} : i \in 1..Len(DictionaryList)}
        \cup {"Z"}

\* number of positions of the pattern that are Green or Yellow and hold
\* letter l in the guess
Marked(guess, pattern, l) ==
    Cardinality({i \in Positions : pattern[i] \in {"G", "Y"} /\ guess[i] = l})

\* the required count of letter l recorded in a required-letters string
requiredCounts(pGood, l) == CountIn(pGood, l)

\* the set of excluded letters recorded in an excluded-letters string
excludedLetters(pBad) == {pBad[k] : k \in 1..Len(pBad)}

\* C1: no letter is at the same time in the excluded letters and required
\* with a count above 0, after any sequence of accepted turns.
C1_NoLetterExcludedAndRequired ==
    \A l \in ClaimLetters :
        ~(l \in excludedLetters(cannotHave)
          /\ requiredCounts(goodButDontKnowWhere, l) > 0)

\* C3: for every guess/answer pair and every letter, the Green and Yellow
\* marks on that letter are at most its occurrences in the answer.
C3_MarksWithinAnswerCount ==
    pc = "compared" =>
        \A l \in ClaimLetters :
            Marked(buffer, result_input, l) <= CountIn(answer, l)

C3_Witness ==
    /\ pc = "compared"
    /\ \E l \in ClaimLetters :
          /\ CountIn(buffer, l) >= 2
          /\ CountIn(answer, l) = 1
          /\ Marked(buffer, result_input, l) = 1
          /\ \E i \in Positions : buffer[i] = l /\ result_input[i] = "B"

\* C4: a word compared with itself is all Green, and a guess that differs
\* from the answer has at least one position that is not Green.
C4_AllGreenIffEqual ==
    pc = "compared" =>
        /\ (buffer = answer => result_input = AllGreen)
        /\ (buffer # answer => \E i \in Positions : result_input[i] # "G")

C4_Witness ==
    /\ pc = "compared"
    /\ buffer = answer
    /\ result_input = AllGreen

\* C5 as stated: CRANE against TRACE gives YGYYG.
C5_Original ==
    (pc = "compared" /\ buffer = CRANE /\ answer = TRACE) =>
        result_input = <<"Y", "G", "Y", "Y", "G">>

\* C5 as amended: CRANE against TRACE gives YGGBG (A is in place, and the
\* answer has no N).
C5_CraneTrace ==
    (pc = "compared" /\ buffer = CRANE /\ answer = TRACE) =>
        result_input = <<"Y", "G", "G", "B", "G">>

C5_Witness ==
    /\ pc = "compared"
    /\ buffer = CRANE
    /\ answer = TRACE

\* the guess as update_game_constraints reads it, letter by letter
UpperWord(w) == [i \in 1..Len(w) |-> toupper(w[i])]

Max(a, b) == IF a >= b THEN a ELSE b

\* update_game_constraints has run at least twice
SecondCallMade ==
    \/ g_tryIdx >= 3
    \/ (g_tryIdx = 2 /\ pc \notin {"prompt", "feedback", "quit"})

\* the step is an accepted turn (update_game_constraints has run in it)
TurnStep == pc = "feedback" /\ pc' # "quit"

\* the state follows a turn in which filter_possible_answers has run
Filtered ==
    \/ pc \in {"error", "identified", "exhausted"}
    \/ (pc = "prompt" /\ g_tryIdx >= 2)

\* the four conditions of the candidate filter, on the constraint state
Accepts(pMask, nMask, pGood, pBad, w) ==
    /\ \A l \in ClaimLetters :
          requiredCounts(pGood, l) > 0 => CountIn(w, l) >= requiredCounts(pGood, l)
    /\ \A i \in Positions : w[i] \notin excludedLetters(pBad)
    /\ \A i \in Positions : pMask[i] # Star => w[i] = pMask[i]
    /\ \A i \in Positions : \A t \in 1..MAX_TRIES : nMask[t][i] # w[i]

AcceptsNow(w) == Accepts(mask, notMask, goodButDontKnowWhere, cannotHave, w)

\* the words the filter is tried on: the dictionary and the guesses
TestWords ==
    {DictionaryList[i].word : i \in 1..Len(DictionaryList)}
        \cup {UpperWord(GuessList[i]) : i \in 1..Len(GuessList)}

InitialSet == Candidates(InitialAnswers, Len(InitialAnswers))

\* C2: across accepted turns no required count decreases, no fixed mask slot
\* returns to '*', and no excluded letter leaves the excluded list.
C2_Monotone ==
    [][ /\ \A l \in ClaimLetters :
              requiredCounts(goodButDontKnowWhere', l)
                  >= requiredCounts(goodButDontKnowWhere, l)
        /\ \A i \in Positions : mask[i] # Star => mask'[i] # Star
        /\ excludedLetters(cannotHave) \subseteq excludedLetters(cannotHave') ]_vars

C2_Witness ==
    /\ SecondCallMade
    /\ \E i \in Positions : mask[i] # Star
    /\ Len(goodButDontKnowWhere) >= 2
    /\ Len(cannotHave) >= 2

\* C6: is_good_fit accepts a word exactly when the four conditions hold, and
\* filter_possible_answers keeps exactly the accepted words.
C6_FitExactly ==
    /\ \A w \in TestWords :
          is_good_fit(mask, notMask, goodButDontKnowWhere, cannotHave, w)
              <=> AcceptsNow(w)
    /\ \E f \in {filter_possible_answers(InitialAnswers, Len(InitialAnswers),
                                         Constraints)} :
          \E kept \in {{w \in InitialSet : AcceptsNow(w)}} :
              /\ Candidates(f.arr, f.num) = kept
              /\ f.num = Cardinality(kept)

C6_Witness ==
    /\ \E i \in Positions : mask[i] # Star
    /\ Len(goodButDontKnowWhere) >= 1
    /\ Len(cannotHave) >= 1
    /\ \E w \in InitialSet : AcceptsNow(w)
    /\ \E w \in InitialSet : ~AcceptsNow(w)

\* C7: filtering an already filtered candidate list again under the same
\* constraint state gives the same words and the same count.
C7_FilterIdempotent ==
    \A c \in {[arr |-> InitialAnswers, num |-> Len(InitialAnswers)],
              [arr |-> pPossibleAnswers, num |-> numPossibleAnswers]} :
        \E f1 \in {filter_possible_answers(c.arr, c.num, Constraints)} :
            \E f2 \in {filter_possible_answers(f1.arr, f1.num, Constraints)} :
                /\ Candidates(f2.arr, f2.num) = Candidates(f1.arr, f1.num)
                /\ f2.num = f1.num

C7_Witness ==
    \E f1 \in {filter_possible_answers(InitialAnswers, Len(InitialAnswers),
                                       Constraints)} :
        /\ f1.num >= 2
        /\ f1.num < Len(InitialAnswers)

\* C8: the candidate set after a turn is a subset of the candidate set before
\* it, and its size does not increase.
C8_CandidatesShrink ==
    [][ /\ Candidates(pPossibleAnswers', numPossibleAnswers')
              \subseteq Candidates(pPossibleAnswers, numPossibleAnswers)
        /\ numPossibleAnswers' <= numPossibleAnswers ]_vars

C8_Witness ==
    /\ g_tryIdx >= 3
    /\ numPossibleAnswers >= 1
    /\ numPossibleAnswers < Len(InitialAnswers)
    /\ \E t \in {2} : notMask[t] # EmptyMask

\* C9: after a turn whose feedback is not all Green and whose filter has run,
\* the guessed word is not a candidate and every candidate satisfies the new
\* constraints.
C9_GuessRemoved ==
    (Filtered /\ result_input # AllGreen) =>
        /\ UpperWord(buffer) \notin Candidates(pPossibleAnswers, numPossibleAnswers)
        /\ buffer \notin Candidates(pPossibleAnswers, numPossibleAnswers)
        /\ \A w \in Candidates(pPossibleAnswers, numPossibleAnswers) : AcceptsNow(w)

C9_Witness ==
    /\ Filtered
    /\ result_input # AllGreen
    /\ UpperWord(buffer) \in InitialSet
    /\ numPossibleAnswers >= 2
    /\ \E i \in Positions : result_input[i] = "G"

\* C10: one call leaves every letter's required count at the larger of its
\* count before the call and the number of Green or Yellow marks on that
\* letter in this guess.
C10_RequiredIsMax ==
    [][ TurnStep =>
          \A l \in ClaimLetters :
              requiredCounts(goodButDontKnowWhere', l)
                  = Max(requiredCounts(goodButDontKnowWhere, l),
                        Marked(UpperWord(buffer'), result_input', l)) ]_vars

C10_Witness ==
    /\ SecondCallMade
    /\ \E l \in ClaimLetters :
          /\ requiredCounts(goodButDontKnowWhere, l) = 2
          /\ Marked(UpperWord(buffer), result_input, l) = 2
          /\ \E m \in ClaimLetters :
                /\ requiredCounts(goodButDontKnowWhere, m) = 1
                /\ Marked(UpperWord(buffer), result_input, m) = 0

(***************************************************************************)
(* The entropy score run on its own: one guess scored against a candidate  *)
(* list (one round of the loop of calculate_all_metrics).                  *)
(***************************************************************************)
\* the candidate lists filtering can leave: the initial list with any of its
\* words removed, the others in their order
RECURSIVE CandidateLists(_)
CandidateLists(n) ==
    IF n = 0 THEN {<<>>}
    ELSE LET shorter == CandidateLists(n - 1)
         IN  shorter \cup {Append(s, InitialAnswers[n]) : s \in shorter}

ScoredWords ==
    {InitialAnswers[i] : i \in 1..Len(InitialAnswers)}
        \cup {[i \in Positions |-> toupper(g[i])] : g \in GuessWords}

InitEntropy ==
    /\ pc = "score"
    /\ pPossibleAnswers \in CandidateLists(Len(InitialAnswers))
    /\ numPossibleAnswers = Len(pPossibleAnswers)
    /\ buffer \in ScoredWords
    /\ g_tryIdx = 1
    /\ mask = EmptyMask
    /\ notMask = [t \in 1..MAX_TRIES |-> EmptyMask]
    /\ goodButDontKnowWhere = <<>>
    /\ cannotHave = <<>>
    /\ result_input = NoWord
    /\ answer = NoWord
    /\ pMetricsTable = NoAnalysis.pMetricsTable
    /\ pRankSorted = NoAnalysis.pRankSorted
    /\ pEntropySorted = NoAnalysis.pEntropySorted
    /\ rankPicks = NoAnalysis.rankPicks
    /\ entropyPicks = NoAnalysis.entropyPicks
    /\ final_word = NoAnalysis.final_word
    /\ twin = NoTwin

\* the metric of the word in buffer against the candidate list
Score ==
    /\ pc = "score"
    /\ pc' = "scored"
    /\ pMetricsTable' =
          <<metric_of(pDictionaryTable, buffer, pPossibleAnswers,
                      numPossibleAnswers, goodButDontKnowWhere)>>
    /\ UNCHANGED <<g_tryIdx, mask, notMask, goodButDontKnowWhere, cannotHave,
                   pPossibleAnswers, numPossibleAnswers, buffer, result_input,
                   answer, pRankSorted, pEntropySorted, rankPicks,
                   entropyPicks, final_word, twin>>

NextEntropy == Score

SpecEntropy == InitEntropy /\ [][NextEntropy]_vars

(***************************************************************************)
(* Properties of the recommendation.                                       *)
(***************************************************************************)
\* the entropy the metric table holds for a word
EntropyOf(word) ==
    pMetricsTable[CHOOSE i \in 1..Len(pMetricsTable) :
                      pMetricsTable[i].word = word].entropy

TableWords == {pMetricsTable[i].word : i \in 1..Len(pMetricsTable)}

\* the places of a view whose entry is not plural, not preterite, not third
\* person and not risky
AdmissibleIdx(view) ==
    {i \in 1..Len(view) :
        /\ view[i].nounType # "P"
        /\ view[i].verbType \notin {"T", "S"}
        /\ ~view[i].is_risky}

FirstOf(S) == CHOOSE i \in S : \A j \in S : i <= j

PicksMade == pc \in {"picked", "final"}

PickGap ==
    Max(EntropyOf(entropyPicks.word) - EntropyOf(rankPicks.word),
        EntropyOf(rankPicks.word) - EntropyOf(entropyPicks.word))

C12_SmallSetPick ==
    (pc = "final" /\ numPossibleAnswers >= 1 /\ numPossibleAnswers <= 25) =>
        /\ final_word = pRankSorted[1].word
        /\ \E i \in 1..Len(pMetricsTable) :
              /\ pMetricsTable[i].word = final_word
              /\ \A j \in 1..Len(pMetricsTable) :
                    pMetricsTable[j].rank <= pMetricsTable[i].rank

C12_Witness ==
    /\ pc = "final"
    /\ numPossibleAnswers = 25
    /\ 1 \notin AdmissibleIdx(pRankSorted)
    /\ rankPicks.word # entropyPicks.word
    /\ PickGap > 500000
    /\ final_word \notin {rankPicks.word, entropyPicks.word}

AxisPicksAdmissible(view, picks) ==
    \E adm \in {AdmissibleIdx(view)} :
        /\ adm # {} => picks.word = view[FirstOf(adm)].word
        /\ Cardinality(adm) >= 2 =>
              picks.alternate_word = view[FirstOf(adm \ {FirstOf(adm)})].word

\* C13: on each axis the primary pick is the first admissible entry of the
\* sorted view when there is one, and the alternate is the second admissible
\* entry when there are two.
C13_FirstTwoAdmissible ==
    PicksMade =>
        /\ AxisPicksAdmissible(pRankSorted, rankPicks)
        /\ AxisPicksAdmissible(pEntropySorted, entropyPicks)

C13_Witness ==
    /\ PicksMade
    /\ Cardinality(AdmissibleIdx(pRankSorted)) >= 2
    /\ pRankSorted[1].verbType = "S"
    /\ rankPicks.word = pRankSorted[2].word
    /\ rankPicks.alternate_word = pRankSorted[3].word
    /\ 1 \notin AdmissibleIdx(pEntropySorted)
    /\ entropyPicks.word # rankPicks.word

AxisPicksFilled(picks) ==
    /\ numPossibleAnswers >= 1 => picks.word \in TableWords
    /\ numPossibleAnswers >= 2 =>
          /\ picks.alternate_word \in TableWords
          /\ picks.alternate_word # picks.word

\* C14: a pick is "NONE" only for an empty table (both slots) or a table of
\* one entry (the alternate): with two or more entries both slots of both
\* axes hold words of the table, and two different ones.
C14_NoneOnlyWhenShort ==
    PicksMade =>
        /\ AxisPicksFilled(rankPicks)
        /\ AxisPicksFilled(entropyPicks)

\* C19: the final pick is the same for every order in which the two sorts may
\* leave the entries their comparators report as equal.
C19_FinalPickDeterministic ==
    pc = "final" =>
        \A views \in create_and_sort_metric_buffers(pMetricsTable,
                                                    numPossibleAnswers) :
            picks_of(pMetricsTable, views, numPossibleAnswers).final_word
                = final_word

\* the pattern histogram of the scored word against the candidate list
Histogram == pattern_counts(buffer, pPossibleAnswers, numPossibleAnswers)

RECURSIVE SumOfCounts(_, _)
SumOfCounts(list, k) ==
    IF k = 0 THEN 0 ELSE SumOfCounts(list, k - 1) + list[k].rank

coreVars ==
    <<mask, notMask, goodButDontKnowWhere, cannotHave, pPossibleAnswers,
      numPossibleAnswers, g_tryIdx>>

C17_EmptyResultEndsGame ==
    [][ /\ (numPossibleAnswers > 0 /\ numPossibleAnswers' = 0) =>
              (pc' = "error" /\ UNCHANGED analysisVars)
        /\ pc = "error" => UNCHANGED vars ]_vars

C17_Witness ==
    /\ pc = "error"
    /\ numPossibleAnswers = 0
    /\ g_tryIdx >= 2
    /\ Len(pMetricsTable) >= 2
    /\ final_word # NONE

C20_AnswerStaysCandidate ==
    /\ answer \in Candidates(pPossibleAnswers, numPossibleAnswers)
    /\ numPossibleAnswers > 0

\* the candidate set a single filter_possible_answers of the initial list
\* gives under the current constraint state
OneShot ==
    LET f == filter_possible_answers(InitialAnswers, Len(InitialAnswers),
                                     Constraints)
    IN  Candidates(f.arr, f.num)

\* C21: after every turn in which the filter has run, the candidate set
\* filtered turn by turn equals the initial candidate set filtered once under
\* the current constraint state.
C21_IncrementalIsOneShot ==
    Filtered => Candidates(pPossibleAnswers, numPossibleAnswers) = OneShot

\* C22: when every feedback is the pattern of the guess against one hidden
\* answer of the initial candidates, the mask announced as SOLVED and the
\* candidate announced as SOLUTION IDENTIFIED are the hidden answer.
C22_AnnouncedIsAnswer ==
    /\ pc = "solved" => [i \in Positions |-> mask[i]] = answer
    /\ pc = "identified" => pPossibleAnswers[1] = answer

C22_Witness ==
    /\ pc = "identified"
    /\ g_tryIdx >= 2
    /\ numPossibleAnswers = 1
    /\ pPossibleAnswers[1] = answer
    /\ UpperWord(buffer) # answer
    /\ strchr(mask, Star)

\* C23: after every accepted turn the required-letters string holds at most
\* 5 letters and the excluded-letters string at most 25, so that each fits
\* its buffer in main with its terminating NUL.
C23_BuffersNeverOverflow ==
    /\ Len(goodButDontKnowWhere) <= WORD_SIZE
    /\ Len(cannotHave) <= BAD_CAPACITY - 1

\* C24: once the picks of a non-empty candidate list are made, the primary
\* pick of either axis is a candidate (not "NONE") that find_metric_by_word
\* finds in its view, and the final word is a candidate.
C24_PicksAreCandidates ==
    /\ (PicksMade /\ numPossibleAnswers >= 1) =>
          /\ rankPicks.word \in Candidates(pPossibleAnswers, numPossibleAnswers)
          /\ entropyPicks.word \in Candidates(pPossibleAnswers, numPossibleAnswers)
          /\ find_metric_by_word(rankPicks.word, pRankSorted,
                                 numPossibleAnswers) # 0
          /\ find_metric_by_word(entropyPicks.word, pEntropySorted,
                                 numPossibleAnswers) # 0
    /\ (pc = "final" /\ numPossibleAnswers >= 1) =>
          final_word \in Candidates(pPossibleAnswers, numPossibleAnswers)

C24_Witness ==
    /\ pc = "final"
    /\ numPossibleAnswers >= 2
    /\ AdmissibleIdx(pRankSorted) = {}
    /\ rankPicks.word = pRankSorted[1].word
    /\ entropyPicks.word = pEntropySorted[1].word
    /\ rankPicks.word # entropyPicks.word
    /\ final_word \in TableWords

\* the recommendation has run in the turn that led to this state
Analysed == pc \in {"prompt", "identified", "exhausted"}

\* C25: the recommendation changes nothing but its own output.  Before the
\* first prompt the constraint buffers are empty and the candidates are the
\* initial list; after a turn in which the recommendation has run the
\* constraint buffers are as update_game_constraints left them, the candidate
\* array and its count are as filter_possible_answers left them, and the
\* metric table is in the order of the candidate array (the sorts worked on
\* copies).
C25_AnalysisIsAdvisory ==
    /\ Constraints = [pMask |-> EmptyMask,
                      notMask |-> [t \in 1..MAX_TRIES |-> EmptyMask],
                      pGood |-> <<>>, pBad |-> <<>>]
    /\ pPossibleAnswers = InitialAnswers
    /\ numPossibleAnswers = Len(InitialAnswers)
    /\ \A i \in 1..numPossibleAnswers : pMetricsTable[i].word = pPossibleAnswers[i]
    /\ [][ (TurnStep /\ Analysed') =>
             \E s \in {update_game_constraints(buffer, result_input',
                                               Constraints, g_tryIdx)} :
               \E f \in {filter_possible_answers(pPossibleAnswers,
                                                 numPossibleAnswers, s)} :
                 /\ mask' = s.pMask
                 /\ notMask' = s.notMask
                 /\ goodButDontKnowWhere' = s.pGood
                 /\ cannotHave' = s.pBad
                 /\ numPossibleAnswers' = f.num
                 /\ pPossibleAnswers' = f.arr
                 /\ Len(pMetricsTable') = f.num
                 /\ \A i \in 1..f.num : pMetricsTable'[i].word = f.arr[i] ]_vars

C25_Witness ==
    /\ pc = "prompt"
    /\ g_tryIdx >= 2
    /\ numPossibleAnswers >= 2
    /\ \E i \in Positions : mask[i] # Star
    /\ Len(goodButDontKnowWhere) >= 1
    /\ Len(cannotHave) >= 1
    /\ \A i \in 1..numPossibleAnswers : pMetricsTable[i].word = pPossibleAnswers[i]
    /\ pRankSorted # pMetricsTable
    /\ pEntropySorted # pMetricsTable

(***************************************************************************)
(* The turn loop of main statement by statement: the guess, the feedback   *)
(* and update_game_constraints, filter_possible_answers, then the steps of *)
(* analyze_and_print_recommendations one after the other (SortViews,       *)
(* FindPicks and FinalPick as above), then the end of the loop body.       *)
(***************************************************************************)
constraintVars == <<mask, notMask, goodButDontKnowWhere, cannotHave>>

\* lines 1398-1432: a valid feedback string is read, update_game_constraints
\* runs, the mask is tested for '*'
UpdateStep(result) ==
    /\ pc = "feedback"
    /\ g_tryIdx <= MAX_TRIES
    /\ result_input' = result
    /\ \E s \in {update_game_constraints(buffer, result, Constraints, g_tryIdx)} :
          /\ mask' = s.pMask
          /\ notMask' = s.notMask
          /\ goodButDontKnowWhere' = s.pGood
          /\ cannotHave' = s.pBad
          /\ pc' = IF ~InsideBuffers(s) THEN "undefined"
                   ELSE IF ~strchr(s.pMask, Star) THEN "solved"
                   ELSE "updated"
    /\ UNCHANGED <<g_tryIdx, pPossibleAnswers, numPossibleAnswers, buffer,
                   answer, analysisVars, twin>>

\* the filter step leaving the candidate array as it is
FilterStep_NoFilter ==
    /\ pc = "updated"
    /\ pc' = IF numPossibleAnswers > 0 THEN "filtered" ELSE "error"
    /\ UNCHANGED <<g_tryIdx, constraintVars, pPossibleAnswers,
                   numPossibleAnswers, buffer, result_input, answer,
                   analysisVars, twin>>

\* line 1435 and the test of line 1437
FilterStep ==
    /\ pc = "updated"
    /\ \E f \in {filter_possible_answers(pPossibleAnswers, numPossibleAnswers,
                                         Constraints)} :
          /\ pPossibleAnswers' = f.arr
          /\ numPossibleAnswers' = f.num
          /\ pc' = IF f.num > 0 THEN "filtered" ELSE "error"
    /\ UNCHANGED <<g_tryIdx, constraintVars, buffer, result_input, answer,
                   analysisVars, twin>>

\* step 1 of analyze_and_print_recommendations: calculate_all_metrics
MetricsStep ==
    /\ pc = "filtered"
    /\ pc' = "analyze"
    /\ pMetricsTable' = calculate_all_metrics(pDictionaryTable, pPossibleAnswers,
                            numPossibleAnswers, goodButDontKnowWhere)
    /\ UNCHANGED <<g_tryIdx, constraintVars, pPossibleAnswers,
                   numPossibleAnswers, buffer, result_input, answer,
                   pRankSorted, pEntropySorted, rankPicks, entropyPicks,
                   final_word, twin>>

\* lines 1441-1445 and the increment of the for loop (line 1380)
LoopStep ==
    /\ pc = "final"
    /\ pc' = IF numPossibleAnswers = 1 THEN "identified"
             ELSE IF g_tryIdx + 1 <= MAX_TRIES THEN "prompt"
             ELSE "exhausted"
    /\ g_tryIdx' = IF numPossibleAnswers = 1 THEN g_tryIdx ELSE g_tryIdx + 1
    /\ UNCHANGED <<constraintVars, pPossibleAnswers, numPossibleAnswers,
                   buffer, result_input, answer, analysisVars, twin>>

NextSteps ==
    \/ \E line \in GuessWords : ReadGuess(line)
    \/ \E result \in Patterns : UpdateStep(result)
    \/ FilterStep
    \/ MetricsStep
    \/ SortViews
    \/ FindPicks
    \/ FinalPick
    \/ LoopStep
    \/ Quit

SpecSteps == Init /\ [][NextSteps]_vars

\* the moves of main from one statement of the loop body to the next
StepPairs ==
    { <<"prompt", "feedback">>, <<"prompt", "quit">>, <<"feedback", "quit">>,
      <<"feedback", "updated">>, <<"feedback", "solved">>,
      <<"feedback", "undefined">>,
      <<"updated", "filtered">>, <<"updated", "error">>,
      <<"filtered", "analyze">>, <<"analyze", "sorted">>,
      <<"sorted", "picked">>, <<"picked", "final">>,
      <<"final", "prompt">>, <<"final", "identified">>,
      <<"final", "exhausted">> }

\* the constraint buffers hold what this turn's guess and feedback put there
ThisTurnApplied ==
    \A i \in Positions :
        /\ result_input[i] = "G" => mask[i] = toupper(buffer[i])
        /\ result_input[i] \in {"Y", "B"} =>
              notMask[g_tryIdx][i] = toupper(buffer[i])

\* the candidate array is filtered under the current constraint state
FilteredNow ==
    /\ numPossibleAnswers > 0
    /\ \A i \in 1..numPossibleAnswers :
          is_good_fit(mask, notMask, goodButDontKnowWhere, cannotHave,
                      pPossibleAnswers[i])

\* C26: in every turn the steps run in the order update, filter, metrics,
\* sorts, picks, final pick, and the next guess is read after the final pick:
\* each step starts from what the step before it left (the filter from this
\* turn's constraints, the metrics from the candidates filtered under them,
\* the sorts from that table, the picks from those views), and each part of
\* the state is written by its own step only.
C26_StepOrder ==
    /\ [](/\ pc \in {"updated", "filtered", "analyze", "sorted", "picked", "final"}
              => ThisTurnApplied
          /\ pc \in {"filtered", "analyze", "sorted", "picked", "final"}
              => FilteredNow
          /\ pc \in {"analyze", "sorted", "picked", "final"}
              => pMetricsTable = calculate_all_metrics(pDictionaryTable,
                                     pPossibleAnswers, numPossibleAnswers,
                                     goodButDontKnowWhere)
          /\ pc \in {"sorted", "picked", "final"}
              => [pRankSorted |-> pRankSorted, pEntropySorted |-> pEntropySorted]
                    \in create_and_sort_metric_buffers(pMetricsTable,
                                                       numPossibleAnswers)
          /\ pc \in {"picked", "final"}
              => /\ rankPicks = find_top_linguistic_picks(pRankSorted,
                                                          numPossibleAnswers)
                 /\ entropyPicks = find_top_linguistic_picks(pEntropySorted,
                                                             numPossibleAnswers)
          /\ pc = "final"
              => final_word = determine_final_pick(pRankSorted, pEntropySorted,
                                  numPossibleAnswers, rankPicks, entropyPicks))
    /\ [][ /\ pc' # pc => <<pc, pc'>> \in StepPairs
           /\ constraintVars' # constraintVars => pc = "feedback"
           /\ <<pPossibleAnswers, numPossibleAnswers>>'
                 # <<pPossibleAnswers, numPossibleAnswers>> => pc = "updated"
           /\ pMetricsTable' # pMetricsTable => pc = "filtered"
           /\ <<pRankSorted, pEntropySorted>>' # <<pRankSorted, pEntropySorted>>
                 => pc = "analyze"
           /\ <<rankPicks, entropyPicks>>' # <<rankPicks, entropyPicks>>
                 => pc = "sorted"
           /\ final_word' # final_word => pc = "picked"
           /\ g_tryIdx' # g_tryIdx => pc = "final" ]_vars

\* the third turn is under way: its final pick is made from a candidate list
\* that its filter has shortened
C26_Witness ==
    /\ pc = "final"
    /\ g_tryIdx >= 3
    /\ numPossibleAnswers >= 2
    /\ ThisTurnApplied
    /\ FilteredNow
    /\ Len(pMetricsTable) = numPossibleAnswers
    /\ \E i \in Positions : notMask[g_tryIdx][i] # Star
    /\ final_word \in Candidates(pPossibleAnswers, numPossibleAnswers)

(***************************************************************************)
(* create_and_sort_metric_buffers on metric tables whose entropies lie     *)
(* within a few EPSILON of each other.                                     *)
(***************************************************************************)
SortLen == 3

SortWord(i) == <<"S", "O", "R", "T", Alphabet[i]>>

\* entropies 0, 1 and 2 nano-bits, and 999 nano-bits and 1 micro-bit
SortDoubles == {<<0, 0>>, <<0, 1>>, <<0, 2>>, <<0, 999>>, <<1, 0>>}

SortMetrics(i) ==
    {[word |-> SortWord(i), entropy |-> d[1], entropy_nano |-> d[2],
      rank |-> r, is_risky |-> FALSE, nounType |-> "N", verbType |-> "N"] :
        d \in SortDoubles, r \in PickRanks}

RECURSIVE SortTables(_)
SortTables(k) ==
    IF k = 0 THEN {<<>>}
    ELSE {Append(t, m) : t \in SortTables(k - 1), m \in SortMetrics(k)}

InitSort ==
    /\ pc = "analyze"
    /\ \E k \in 0..SortLen : pMetricsTable \in SortTables(k)
    /\ numPossibleAnswers = Len(pMetricsTable)
    /\ pPossibleAnswers = [i \in 1..Len(pMetricsTable) |-> pMetricsTable[i].word]
    /\ g_tryIdx = 1
    /\ mask = EmptyMask
    /\ notMask = [t \in 1..MAX_TRIES |-> EmptyMask]
    /\ goodButDontKnowWhere = <<>>
    /\ cannotHave = <<>>
    /\ buffer = NoWord
    /\ result_input = NoWord
    /\ answer = NoWord
    /\ pRankSorted = NoAnalysis.pRankSorted
    /\ pEntropySorted = NoAnalysis.pEntropySorted
    /\ rankPicks = NoAnalysis.rankPicks
    /\ entropyPicks = NoAnalysis.entropyPicks
    /\ final_word = NoAnalysis.final_word
    /\ twin = NoTwin

NextSort == SortViews

SpecSort == InitSort /\ [][NextSort]_vars

\* the view holds every entry of the table once
PermutationOf(view, table) ==
    /\ Len(view) = Len(table)
    /\ \A i \in 1..Len(table) :
           Cardinality({j \in 1..Len(view) : view[j] = table[i]})
               = Cardinality({j \in 1..Len(table) : table[j] = table[i]})

SpecLoop ==
    /\ Init
    /\ [][NextInput]_vars
    /\ WF_vars(\E line \in GuessLines : ReadGuess(line))
    /\ []<>(pc # "feedback")

\* the loop of main has been left
LoopLeft == pc \in {"solved", "identified", "error", "exhausted", "quit"}

\* the run is over: the loop has been left, or update_game_constraints has
\* written outside goodButDontKnowWhere or cannotHave, where the defined
\* behaviour of the run ends
RunOver == LoopLeft \/ pc = "undefined"

\* the turns accepted so far have each written their row of notMask, the
\* rows 1 .. g_tryIdx - 1; the later rows are as main set them up
TurnIndexCountsTurns ==
    /\ g_tryIdx \in 1..(MAX_TRIES + 1)
    /\ g_tryIdx = MAX_TRIES + 1 <=> pc = "exhausted"
    /\ pc \in {"prompt", "feedback"} =>
          /\ g_tryIdx \in 1..MAX_TRIES
          /\ \A t \in 1..MAX_TRIES : notMask[t] # EmptyMask <=> t < g_tryIdx

\* a step that writes a row of notMask is a call of update_game_constraints
\* that writes the row of its turn index, which no turn has written before;
\* the turn index moves on by one, and only when a turn has been accepted
OwnRowOnly ==
    /\ \A t \in 1..MAX_TRIES :
           notMask'[t] # notMask[t] =>
               /\ pc = "feedback"
               /\ t = g_tryIdx
               /\ notMask[t] = EmptyMask
    /\ g_tryIdx' # g_tryIdx =>
           /\ pc = "feedback"
           /\ g_tryIdx' = g_tryIdx + 1
           /\ notMask'[g_tryIdx] # EmptyMask
           /\ pc' \in {"prompt", "exhausted"}

\* C28: the loop takes at most MAX_TRIES turns and the run is over in the
\* end when no prompt waits for a valid line for ever; the turn index that
\* update_game_constraints receives is in 1..MAX_TRIES and is 1 more than
\* the number of turns accepted before; every turn writes the row of
\* notMask of its own index and no row is written twice.
C28_SixTurnsThenEnds ==
    /\ []TurnIndexCountsTurns
    /\ [][OwnRowOnly]_vars
    /\ <>RunOver

\* six turns have been accepted, each has written its row, and the loop has
\* ended
C28_Witness ==
    /\ pc = "exhausted"
    /\ g_tryIdx = MAX_TRIES + 1
    /\ \A t \in 1..MAX_TRIES : notMask[t] # EmptyMask
    /\ numPossibleAnswers >= 2

====
